---- MODULE Spec2Model ----
(***************************************************************************)
(* A model of the crypto-bot decision core: the trading loop of main.py,   *)
(* the trade ledger of trade_logger.py, the risk checks of risk_manager.py,*)
(* the signal generator of strategy.py and the order path of               *)
(* binance_client.py.                                                      *)
(*                                                                         *)
(* Prices, quantities and closes are integers; floating point arithmetic   *)
(* is modelled exactly (a quotient is kept as a numerator/denominator pair *)
(* and compared by cross-multiplication).  The wall clock `now` counts     *)
(* whole seconds, the granularity at which log_trade records a timestamp   *)
(* (strftime '%Y-%m-%d %H:%M:%S'); it never runs backwards.  A handler     *)
(* takes no time of its own: time passes in time.sleep only.               *)
(***************************************************************************)
EXTENDS Integers, Sequences, FiniteSets, TLC

VARIABLES
    trade_log,       \* rows of TRADE_LOG_FILE, in append order
    log_exists,      \* os.path.isfile(TRADE_LOG_FILE)
    now,             \* wall clock, seconds
    pc,              \* position of the process in TradingBot.run
    idx,             \* index into the product list inside run_strategy_cycle
    active_strategy, \* profile selected by run_strategy_cycle
    portfolio_safe,  \* is_safe of run_strategy_cycle
    open_positions,  \* self.open_positions['binance']
    next_order_id,   \* the exchange's next orderId
    notifications,   \* error notifications issued
    restarts,        \* process restarts so far
    ps               \* the locals of the call that has just returned
                     \* (process_symbol, or the function a harness calls)

vars == <<trade_log, log_exists, now, pc, idx, active_strategy, portfolio_safe,
          open_positions, next_order_id, notifications, restarts, ps>>

---------------------------------------------------------------------------
(* Bounds of the model. *)

\* the clock stops the model at MaxTime seconds
MaxTime == 64
\* process restarts explored
MaxRestarts == 1
\* rows the ledger harness (SpecResolver) appends
MaxCalls == 4
\* latest second of the ledger harness clock
MaxStamp == 2
\* closes of the crash-check harness (SpecCrash) are the multiples of 5 up to
\* 5 * MaxCloseUnits
MaxCloseUnits == 20
\* longest series of the crash-check harness
MaxBars == 2
\* hours the clock of the trading-window harness (SpecWindow) runs
MaxHours == 30
\* closes of the signal harness (SpecSignal) are 1..MaxPrice
MaxPrice == 4
\* longest series of the signal harness over those closes
MaxSignalBars == 5

---------------------------------------------------------------------------
(* config.py *)

\* EXCHANGE_CONFIGS['binance']['products']: the canary pair and one other pair
Products == <<"BTCUSDT", "ETHUSDT">>
TRADE_AMOUNT_USDT == 15
SAFE_PORTFOLIO_VALUE_THRESHOLD == 200
MARKET_CRASH_THRESHOLD_PERCENT == -10
BINANCE_BTC_MIN_VALUE == 50
SYMBOL_DELAY == 2
CYCLE_SLEEP == 60

STRATEGY_MODERATE ==
    [short_sma |-> 8, long_sma |-> 21, rsi_period |-> 14, rsi_overbought |-> 75]
STRATEGY_AGGRESSIVE ==
    [short_sma |-> 5, long_sma |-> 13, rsi_period |-> 9, rsi_overbought |-> 80]

stop_hours == {2, 7, 23}
aggressive_hours == 3..6

\* f"{exchange}_{product_id}"
LogSymbol(product_id) ==
    CASE product_id = "BTCUSDT" -> "binance_BTCUSDT"
      [] product_id = "ETHUSDT" -> "binance_ETHUSDT"

\* product_id.replace(quote_currency, '')
BaseCurrency(product_id) ==
    CASE product_id = "BTCUSDT" -> "BTC"
      [] product_id = "ETHUSDT" -> "ETH"

\* 'BTC' in product_id
ContainsBTC(product_id) == product_id \in {"BTCUSDT"}

ProductSet == {Products[i] : i \in 1..Len(Products)}
LogSymbols == {LogSymbol(p) : p \in ProductSet}

\* Python's None where a price is expected
None == -1

---------------------------------------------------------------------------
(* trade_logger.py *)

RECURSIVE SelectSeq2(_, _, _)
\* the rows of a frame that satisfy a column test, in order
SelectSeq2(rows, col, val) ==
    IF rows = <<>> THEN <<>>
    ELSE IF Head(rows)[col] = val
         THEN <<Head(rows)>> \o SelectSeq2(Tail(rows), col, val)
         ELSE SelectSeq2(Tail(rows), col, val)

\* DataFrame.tail(1)
Tail1(rows) == IF rows = <<>> THEN <<>> ELSE <<rows[Len(rows)]>>

\* an entry that leaves the pnl column at its default
LogEntry_default_pnl(clock, symbol, side, price, quantity, cost, order_id, pnl) ==
    [timestamp |-> clock, order_id |-> order_id, symbol |-> symbol, side |-> side,
     price |-> price, quantity |-> quantity, cost |-> cost, pnl |-> 0]

\* log_trade: one row appended, stamped with the clock
LogEntry(clock, symbol, side, price, quantity, cost, order_id, pnl) ==
    [timestamp |-> clock, order_id |-> order_id, symbol |-> symbol, side |-> side,
     price |-> price, quantity |-> quantity, cost |-> cost, pnl |-> pnl]

\* a log_trade that writes the new row at the head of the file
log_trade_at_head(rows, entry) == <<entry>> \o rows

\* a log_trade that writes the row twice
log_trade_twice(rows, entry) == Append(Append(rows, entry), entry)

log_trade(rows, entry) == Append(rows, entry)

\* a read_log that writes the headers whether or not the file is there
read_log_rewriting(file) == [exists |-> TRUE, rows |-> <<>>]

\* read_log: creates the file (headers only) when it is missing, then reads it
read_log(file) == [exists |-> TRUE, rows |-> file.rows]

\* a resolver that forgets the symbol filter
SymbolRows_unfiltered(log_df, symbol) == log_df

\* log_df[log_df['symbol'] == symbol]
SymbolRows(log_df, symbol) == SelectSeq2(log_df, "symbol", symbol)

\* a comparison that counts an equal timestamp as later
SellIsLater_or_equal(sell_ts, buy_ts) == sell_ts >= buy_ts

\* strict comparison of two parsed timestamps
SellIsLater(sell_ts, buy_ts) == sell_ts > buy_ts

\* get_last_buy_for_symbol: <<>> is None, <<row>> is the row returned
get_last_buy_for_symbol(log_df, symbol) ==
    IF log_df = <<>> THEN <<>>
    ELSE LET symbol_df == SymbolRows(log_df, symbol)
             last_buy  == Tail1(SelectSeq2(symbol_df, "side", "BUY"))
             last_sell == Tail1(SelectSeq2(symbol_df, "side", "SELL"))
         IN IF last_buy = <<>>
               \/ (last_sell # <<>>
                   /\ SellIsLater(last_sell[1].timestamp, last_buy[1].timestamp))
            THEN <<>>
            ELSE last_buy

---------------------------------------------------------------------------
(* risk_manager.py *)

\* a portfolio check that denies buys at the threshold itself
check_portfolio_risk_at_threshold(total_value) ==
    ~(total_value <= SAFE_PORTFOLIO_VALUE_THRESHOLD)

\* check_portfolio_risk
check_portfolio_risk(total_value) == ~(total_value < SAFE_PORTFOLIO_VALUE_THRESHOLD)

\* a crash message that fails with the timestamp error of the exchange
CrashReport_api_error == "BinanceAPIException -1021"

\* the value of the f-string of line 48: a DataFrame has no attribute `name`
CrashReport == "AttributeError"

\* check_market_crash on the closes of df: "False", "True" or the exception raised
check_market_crash_never(df) == "False"

check_market_crash(df) ==
    IF Len(df) < 2 THEN "False"
    ELSE LET last_close == df[Len(df)]
             prev_close == df[Len(df) - 1]
         IN IF prev_close = 0 THEN "False"
            \* ((last - prev) / prev) * 100 < threshold, prev > 0
            ELSE IF (last_close - prev_close) * 100
                      < MARKET_CRASH_THRESHOLD_PERCENT * prev_close
                 THEN CrashReport
                 ELSE "False"

\* a canary check that lets trading go on when the price is unavailable
check_binance_btc_balance_fail_open(btc_balance, btc_price) ==
    IF btc_price = None THEN TRUE
    ELSE IF btc_balance * btc_price < BINANCE_BTC_MIN_VALUE THEN FALSE
    ELSE TRUE

\* check_binance_btc_balance
check_binance_btc_balance(btc_balance, btc_price) ==
    IF btc_price = None THEN FALSE
    ELSE IF btc_balance * btc_price < BINANCE_BTC_MIN_VALUE THEN FALSE
    ELSE TRUE

---------------------------------------------------------------------------
(* strategy.py *)

RECURSIVE SumRange(_, _, _)
\* s[lo] + ... + s[hi]
SumRange(s, lo, hi) == IF lo > hi THEN 0 ELSE s[hi] + SumRange(s, lo, hi - 1)

\* close.rolling(window=w).mean() at row i is defined (not NaN)
SmaDefined(df, w, i) == i >= w /\ i <= Len(df) /\ i >= 1
\* w times the rolling mean at row i
SmaSum(df, w, i) == SumRange(df, i - w + 1, i)

\* delta.where(delta > 0, 0) at row i: the NaN of the first row becomes 0
Gain(df, i) == IF i >= 2 /\ df[i] - df[i - 1] > 0 THEN df[i] - df[i - 1] ELSE 0
\* -delta.where(delta < 0, 0) at row i
Loss(df, i) == IF i >= 2 /\ df[i] - df[i - 1] < 0 THEN df[i - 1] - df[i] ELSE 0

RECURSIVE GainSum(_, _, _)
GainSum(df, lo, hi) == IF lo > hi THEN 0 ELSE Gain(df, hi) + GainSum(df, lo, hi - 1)
RECURSIVE LossSum(_, _, _)
LossSum(df, lo, hi) == IF lo > hi THEN 0 ELSE Loss(df, hi) + LossSum(df, lo, hi - 1)

\* a ratio that is 0 whenever the mean of the losses is 0
RelativeStrength_zero_without_loss(df, p, i) ==
    IF i < p \/ LossSum(df, i - p + 1, i) = 0
    THEN [inf |-> FALSE, num |-> 0, den |-> 1]
    ELSE [inf |-> FALSE, num |-> GainSum(df, i - p + 1, i),
          den |-> LossSum(df, i - p + 1, i)]

\* rs = gain / loss, then rs.fillna(0): NaN (window not full, or 0/0) becomes 0,
\* infinity (gain > 0, loss = 0) stays infinite.  "inf" or a quotient num/den.
RelativeStrength(df, p, i) ==
    IF i < p THEN [inf |-> FALSE, num |-> 0, den |-> 1]
    ELSE LET g == GainSum(df, i - p + 1, i)
             l == LossSum(df, i - p + 1, i)
         IN IF l = 0
            THEN IF g = 0 THEN [inf |-> FALSE, num |-> 0, den |-> 1]
                          ELSE [inf |-> TRUE, num |-> 1, den |-> 0]
            ELSE [inf |-> FALSE, num |-> g, den |-> l]

\* 100 - (100 / (1 + rs)), as a quotient num/den with den > 0
RSI(df, p, i) ==
    LET rs == RelativeStrength(df, p, i)
    IN IF rs.inf THEN [num |-> 100, den |-> 1]
       ELSE [num |-> 100 * rs.num, den |-> rs.den + rs.num]

\* rules that look for the death cross before the overbought oscillator
signal_rules_death_cross_first(df, params) ==
    LET n == Len(df)
        s == params.short_sma
        l == params.long_sma
        rsi == RSI(df, params.rsi_period, n)
        sma_cross_over ==
            /\ SmaDefined(df, s, n - 1) /\ SmaDefined(df, l, n - 1)
            /\ SmaSum(df, s, n - 1) * l <= SmaSum(df, l, n - 1) * s
            /\ SmaSum(df, s, n) * l > SmaSum(df, l, n) * s
        rsi_confirm_buy == rsi.num < params.rsi_overbought * rsi.den
        sma_cross_under ==
            /\ SmaDefined(df, s, n - 1) /\ SmaDefined(df, l, n - 1)
            /\ SmaSum(df, s, n - 1) * l >= SmaSum(df, l, n - 1) * s
            /\ SmaSum(df, s, n) * l < SmaSum(df, l, n) * s
        rsi_is_overbought == rsi.num > params.rsi_overbought * rsi.den
    IN IF n < l THEN <<"HOLD", "Not enough data">>
       ELSE IF ~SmaDefined(df, s, n) \/ ~SmaDefined(df, l, n)
            THEN <<"HOLD", "Indicators still calculating">>
       ELSE IF sma_cross_over /\ rsi_confirm_buy
            THEN <<"BUY", "Golden Cross + RSI Confirmation">>
       ELSE IF sma_cross_under THEN <<"SELL", "Death Cross">>
       ELSE IF rsi_is_overbought THEN <<"SELL", "Aggressive Sell: RSI Overbought">>
       ELSE <<"HOLD", "No signal">>

\* the body of generate_signal on a frame whose closes are df: <<signal, reason>>
signal_rules(df, params) ==
    LET n == Len(df)
        s == params.short_sma
        l == params.long_sma
        rsi == RSI(df, params.rsi_period, n)
        \* comparisons with NaN are False
        sma_cross_over ==
            /\ SmaDefined(df, s, n - 1) /\ SmaDefined(df, l, n - 1)
            /\ SmaSum(df, s, n - 1) * l <= SmaSum(df, l, n - 1) * s
            /\ SmaSum(df, s, n) * l > SmaSum(df, l, n) * s
        rsi_confirm_buy == rsi.num < params.rsi_overbought * rsi.den
        sma_cross_under ==
            /\ SmaDefined(df, s, n - 1) /\ SmaDefined(df, l, n - 1)
            /\ SmaSum(df, s, n - 1) * l >= SmaSum(df, l, n - 1) * s
            /\ SmaSum(df, s, n) * l < SmaSum(df, l, n) * s
        rsi_is_overbought == rsi.num > params.rsi_overbought * rsi.den
    IN IF n < l THEN <<"HOLD", "Not enough data">>
       ELSE IF ~SmaDefined(df, s, n) \/ ~SmaDefined(df, l, n)
            THEN <<"HOLD", "Indicators still calculating">>
       ELSE IF sma_cross_over /\ rsi_confirm_buy
            THEN <<"BUY", "Golden Cross + RSI Confirmation">>
       ELSE IF rsi_is_overbought THEN <<"SELL", "Aggressive Sell: RSI Overbought">>
       ELSE IF sma_cross_under THEN <<"SELL", "Death Cross">>
       ELSE <<"HOLD", "No signal">>

---------------------------------------------------------------------------
(* binance_client.py *)

LIMIT_ORDER_OFFSET == [num |-> 1, den |-> 10000]

\* self.symbol_info: the exchange's filters for the configured pairs
symbol_info == [p \in ProductSet |-> [tick_size |-> 1, step_size |-> 1]]

\* _round_quantity_to_step of the quotient q.num / q.den
round_quantity_to_step(symbol, q) ==
    LET step_size == symbol_info[symbol].step_size
    IN (q.num \div (q.den * step_size)) * step_size

\* _round_price_to_tick of the quotient p.num / p.den
round_price_to_tick(symbol, p) ==
    LET tick_size == symbol_info[symbol].tick_size
    IN (p.num \div (p.den * tick_size)) * tick_size

\* what create_order answers for a request of quantity q at price p: the
\* exchange fills nothing at once, or a first unit and, of a larger order, a second
OrderFills(fill, q, p) ==
    CASE fill = "none"   -> <<>>
      [] fill = "filled" -> IF q > 2 THEN <<[qty |-> 1, price |-> p],
                                            [qty |-> 1, price |-> p]>>
                                     ELSE <<[qty |-> 1, price |-> p]>>

RECURSIVE SumQty(_)
SumQty(fills) == IF fills = <<>> THEN 0 ELSE Head(fills).qty + SumQty(Tail(fills))
RECURSIVE SumCost(_)
SumCost(fills) ==
    IF fills = <<>> THEN 0 ELSE Head(fills).qty * Head(fills).price + SumCost(Tail(fills))

\* _parse_order_response: <<>> is None, <<dict>> the standardized response
parse_order_response(order_id, fills) ==
    IF fills = <<>> THEN <<>>
    ELSE LET total_quantity == SumQty(fills)
             total_cost == SumCost(fills)
         IN <<[order_id |-> order_id,
               price |-> IF total_quantity > 0
                         THEN [num |-> total_cost, den |-> total_quantity]
                         ELSE [num |-> 0, den |-> 1],
               quantity |-> total_quantity, cost |-> total_cost]>>

\* a place_limit_order that hands back an order the exchange rejected
place_limit_order_returns_rejected(symbol, side, quantity, price, response, order_id) ==
    LET rounded_quantity == round_quantity_to_step(symbol, quantity)
        rounded_price == round_price_to_tick(symbol, price)
    IN IF rounded_quantity <= 0
       THEN [outcome |-> "zero_quantity", submitted |-> FALSE, accepted |-> FALSE,
             req_quantity |-> rounded_quantity, req_price |-> 0, details |-> <<>>]
       ELSE [outcome |-> IF response.accepted THEN "filled" ELSE "rejected",
             submitted |-> TRUE, accepted |-> response.accepted,
             req_quantity |-> rounded_quantity, req_price |-> rounded_price,
             details |-> parse_order_response(
                             order_id,
                             <<[qty |-> rounded_quantity, price |-> rounded_price]>>)]

\* place_limit_order: the request made of the exchange, if any, and what is returned
place_limit_order(symbol, side, quantity, price, response, order_id) ==
    LET rounded_quantity == round_quantity_to_step(symbol, quantity)
        rounded_price == round_price_to_tick(symbol, price)
    IN IF rounded_quantity <= 0
       THEN [outcome |-> "zero_quantity", submitted |-> FALSE, accepted |-> FALSE,
             req_quantity |-> rounded_quantity, req_price |-> 0, details |-> <<>>]
       ELSE IF ~response.accepted
       THEN [outcome |-> "rejected", submitted |-> TRUE, accepted |-> FALSE,
             req_quantity |-> rounded_quantity, req_price |-> rounded_price,
             details |-> <<>>]
       ELSE LET details == parse_order_response(
                               order_id,
                               OrderFills(response.fill, rounded_quantity, rounded_price))
            IN [outcome |-> IF details = <<>> THEN "no_fills" ELSE "filled",
                submitted |-> TRUE, accepted |-> TRUE,
                req_quantity |-> rounded_quantity, req_price |-> rounded_price,
                details |-> details]

---------------------------------------------------------------------------
(* main.py *)

\* what the exchange and the market answer during one process_symbol call
BalanceInputs == {0, 2}
PriceInputs == {None, 5, 20, 30}
ResponseInputs == {[accepted |-> FALSE, fill |-> "none"],
                   [accepted |-> TRUE, fill |-> "none"],
                   [accepted |-> TRUE, fill |-> "filled"]}
TotalValueInputs == {150, 200, 250}

\* n copies of v
Flat(n, v) == [i \in 1..n |-> v]

\* closes of get_historic_rates: <<>> is None (the fetch failed or came back empty)
KlineInputs ==
    {<<>>,
     <<100>>,
     Flat(22, 100),
     Flat(19, 100) \o <<102, 95, 105>>,
     Flat(19, 100) \o <<100, 100, 102>>,
     Flat(19, 100) \o <<100, 100, 95>>,
     Flat(19, 100) \o <<100, 100, 80>>}

StrategyParams(name) ==
    IF name = "aggressive" THEN STRATEGY_AGGRESSIVE ELSE STRATEGY_MODERATE

\* generate_signal is a function of its arguments: its value on the klines and
\* profiles of the trading loop is computed once
SignalMemo ==
    [x \in KlineInputs \X {STRATEGY_MODERATE, STRATEGY_AGGRESSIVE} |->
        signal_rules(x[1], x[2])]

\* a signal from the last two closes alone, however short the history
generate_signal_momentum(df, params) ==
    IF Len(df) >= 2 /\ df[Len(df)] > df[Len(df) - 1]
    THEN <<"BUY", "Golden Cross + RSI Confirmation">>
    ELSE <<"HOLD", "No signal">>

\* generate_signal
generate_signal(df, params) ==
    IF <<df, params>> \in DOMAIN SignalMemo THEN SignalMemo[<<df, params>>]
    ELSE signal_rules(df, params)

PsInit ==
    [call |-> "none", product_id |-> "", safe |-> TRUE, canary |-> "skipped",
     fetched |-> FALSE, df |-> <<>>, log_read |-> FALSE, log_len |-> 0,
     last_buy |-> <<>>, crash |-> "skipped", signal |-> "none", reason |-> "",
     executed |-> "none", order |-> "none", submitted |-> FALSE, accepted |-> FALSE,
     logged |-> FALSE, raised |-> "none", btc_balance |-> 0, btc_price |-> None,
     again |-> FALSE, details |-> <<>>, current_hour_utc |-> None,
     strategy_params |-> STRATEGY_MODERATE, steps |-> <<>>, total_value |-> None,
     rsi |-> <<>>, summary |-> "none", notifier |-> "none",
     last_notification_time |-> 0]

\* execute_buy
execute_buy(rows, clock, product_id, env, order_id) ==
    LET price == env.price
    IN IF price = None \/ price = 0
       THEN [rows |-> rows, order |-> "no_price", submitted |-> FALSE,
             accepted |-> FALSE, logged |-> FALSE, details |-> <<>>]
       ELSE LET quantity == [num |-> TRADE_AMOUNT_USDT, den |-> price]
                limit_price ==
                    [num |-> price * (LIMIT_ORDER_OFFSET.den - LIMIT_ORDER_OFFSET.num),
                     den |-> LIMIT_ORDER_OFFSET.den]
                order == place_limit_order(product_id, "buy", quantity, limit_price,
                                           env.response, order_id)
                logged == order.details # <<>> /\ order.details[1].order_id # 0
            IN [rows |-> IF logged
                         THEN log_trade(rows,
                                  LogEntry(clock, LogSymbol(product_id), "BUY",
                                           order.details[1].price,
                                           order.details[1].quantity,
                                           order.details[1].cost,
                                           order.details[1].order_id, 0))
                         ELSE rows,
                order |-> order.outcome, submitted |-> order.submitted,
                accepted |-> order.accepted, logged |-> logged,
                details |-> order.details]

\* the exception of subscripting None in execute_sell
MissingRecord == "TypeError"

\* execute_sell
execute_sell(rows, clock, product_id, last_buy, env, order_id) ==
    LET balance == env.balance
        price == env.price
    IN IF ~(balance > 0)
       THEN [rows |-> rows, order |-> "no_balance", submitted |-> FALSE,
             accepted |-> FALSE, logged |-> FALSE, details |-> <<>>,
             raised |-> "none"]
       ELSE IF price = None \/ price = 0
       THEN [rows |-> rows, order |-> "no_price", submitted |-> FALSE,
             accepted |-> FALSE, logged |-> FALSE, details |-> <<>>,
             raised |-> "none"]
       ELSE LET limit_price ==
                    [num |-> price * (LIMIT_ORDER_OFFSET.den + LIMIT_ORDER_OFFSET.num),
                     den |-> LIMIT_ORDER_OFFSET.den]
                order == place_limit_order(product_id, "sell",
                                           [num |-> balance, den |-> 1], limit_price,
                                           env.response, order_id)
                filled == order.details # <<>> /\ order.details[1].order_id # 0
                \* float(last_buy['cost']) on None raises before log_trade
                logged == filled /\ last_buy # <<>>
                buy_cost == last_buy[1].cost
                sell_value == order.details[1].cost
                net_pnl == sell_value - buy_cost
            IN [rows |-> IF logged
                         THEN log_trade(rows,
                                  LogEntry(clock, LogSymbol(product_id), "SELL",
                                           order.details[1].price, balance, sell_value,
                                           order.details[1].order_id, net_pnl))
                         ELSE rows,
                order |-> order.outcome, submitted |-> order.submitted,
                accepted |-> order.accepted, logged |-> logged,
                details |-> order.details,
                raised |-> IF filled /\ last_buy = <<>> THEN MissingRecord
                           ELSE "none"]

\* a decision that sells on the signal alone
Decide_sell_unchecked(signal, is_open, safe) ==
    IF signal = "BUY" /\ ~is_open /\ safe THEN "buy"
    ELSE IF signal = "SELL" THEN "sell"
    ELSE "none"

\* a decision that asks the portfolio check before selling as well
Decide_sell_gated(signal, is_open, safe) ==
    IF signal = "BUY" /\ ~is_open /\ safe THEN "buy"
    ELSE IF signal = "SELL" /\ is_open /\ safe THEN "sell"
    ELSE "none"

\* step 6 of process_symbol: which of execute_buy / execute_sell is called
Decide(signal, is_open, safe) ==
    IF signal = "BUY" /\ ~is_open /\ safe THEN "buy"
    ELSE IF signal = "SELL" /\ is_open THEN "sell"
    ELSE "none"

\* a position flag that is not refreshed from the ledger
PositionFlag_stale(old_flag, last_buy) == old_flag

\* a position flag that needs the memory of the process to agree with the ledger
PositionFlag_and_memory(old_flag, last_buy) == old_flag /\ last_buy # <<>>

\* the position flag process_symbol stores from the resolver's answer
PositionFlag(old_flag, last_buy) == last_buy # <<>>

\* process_symbol: the ledger, the position flag and the locals it leaves behind
process_symbol(file, old_flag, clock, product_id, safe, strategy_params, env, order_id) ==
    LET base == [PsInit EXCEPT !.call = "process_symbol", !.product_id = product_id,
                               !.safe = safe, !.strategy_params = strategy_params,
                               !.btc_balance = IF ContainsBTC(product_id)
                                               THEN env.btc_balance ELSE 0,
                               !.btc_price = IF ContainsBTC(product_id)
                                             THEN env.btc_price ELSE None,
                               !.steps = IF ContainsBTC(product_id)
                                         THEN <<"CANARY">> ELSE <<>>]
        same == [rows |-> file.rows, exists |-> file.exists, flag |-> old_flag]
    IN IF ContainsBTC(product_id)
          /\ ~check_binance_btc_balance(env.btc_balance, env.btc_price)
       THEN same @@ [ps |-> [base EXCEPT !.canary = "unsafe"]]
       ELSE
       LET ps1 == [base EXCEPT !.canary = IF ContainsBTC(product_id)
                                          THEN "safe" ELSE "skipped",
                               !.fetched = TRUE, !.df = env.klines,
                               !.steps = base.steps \o <<"FETCH", "INDICATORS">>]
           df == env.klines
       IN IF df = <<>> THEN same @@ [ps |-> ps1]
          ELSE
          LET log == read_log(file)
              last_buy == get_last_buy_for_symbol(log.rows, LogSymbol(product_id))
              flag == PositionFlag(old_flag, last_buy)
              ps3 == [ps1 EXCEPT !.log_read = TRUE, !.log_len = Len(log.rows),
                                 !.last_buy = last_buy,
                                 !.steps = ps1.steps \o
                                           <<"RESOLVE_POSITION", "RISK_CHECK">>]
              crash == check_market_crash(df)
              read == [rows |-> log.rows, exists |-> log.exists, flag |-> flag]
          IN IF crash = "True" THEN read @@ [ps |-> [ps3 EXCEPT !.crash = crash]]
             ELSE IF crash # "False"
             THEN read @@ [ps |-> [ps3 EXCEPT !.crash = crash, !.raised = crash]]
             ELSE
             LET sig == generate_signal(df, strategy_params)
                 ps5 == [ps3 EXCEPT !.crash = crash, !.signal = sig[1],
                                    !.reason = sig[2],
                                    !.steps = ps3.steps \o <<"SIGNAL", "DECIDE">>]
                 todo == Decide(sig[1], flag, safe)
             IN IF todo = "buy"
                THEN LET b == execute_buy(log.rows, clock, product_id, env, order_id)
                     IN [rows |-> b.rows, exists |-> TRUE,
                         flag |-> IF b.logged THEN TRUE ELSE flag,
                         ps |-> [ps5 EXCEPT !.executed = "buy", !.order = b.order,
                                            !.submitted = b.submitted,
                                            !.accepted = b.accepted,
                                            !.logged = b.logged,
                                            !.details = b.details]]
                ELSE IF todo = "sell"
                THEN LET e == execute_sell(log.rows, clock, product_id, last_buy, env,
                                           order_id)
                     IN [rows |-> e.rows, exists |-> TRUE,
                         flag |-> IF e.logged THEN FALSE ELSE flag,
                         ps |-> [ps5 EXCEPT !.executed = "sell", !.order = e.order,
                                            !.submitted = e.submitted,
                                            !.accepted = e.accepted,
                                            !.logged = e.logged,
                                            !.details = e.details,
                                            !.raised = e.raised]]
                ELSE read @@ [ps |-> ps5]

---------------------------------------------------------------------------
(* TradingBot.run: the trading loop *)

ClosedPositions == [p \in ProductSet |-> FALSE]

Init ==
    /\ trade_log = <<>>
    /\ log_exists = FALSE
    /\ now = 0
    /\ pc = "loop"
    /\ idx = 1
    /\ active_strategy = "none"
    /\ portfolio_safe = TRUE
    /\ open_positions = ClosedPositions
    /\ next_order_id = 1
    /\ notifications = 0
    /\ restarts = 0
    /\ ps = PsInit

\* a selection that knows no stopped hours
SelectStrategy_no_stop_hours(current_hour_utc) ==
    IF current_hour_utc \in aggressive_hours THEN "aggressive" ELSE "moderate"

\* the profile run_strategy_cycle selects for an hour
SelectStrategy(current_hour_utc) ==
    IF current_hour_utc \in stop_hours THEN "halted"
    ELSE IF current_hour_utc \in aggressive_hours THEN "aggressive"
    ELSE "moderate"

\* a run_strategy_cycle that goes on to the portfolio check and the product
\* loop in a stopped hour as well
run_strategy_cycle_never_stops(current_hour_utc, total_value) ==
    [strategy |-> SelectStrategy(current_hour_utc), checked |-> TRUE,
     is_safe |-> check_portfolio_risk(total_value), pc |-> "symbol"]

\* run_strategy_cycle up to its product loop: the profile selected, whether the
\* portfolio check is made and its verdict, and where the process goes next
run_strategy_cycle(current_hour_utc, total_value) ==
    IF SelectStrategy(current_hour_utc) = "halted"
    THEN [strategy |-> "halted", checked |-> FALSE, is_safe |-> TRUE, pc |-> "sleep"]
    ELSE [strategy |-> SelectStrategy(current_hour_utc), checked |-> TRUE,
          is_safe |-> check_portfolio_risk(total_value), pc |-> "symbol"]

\* the exceptions get_account can raise inside the portfolio check
ClockSkew == "BinanceAPIException -1021"
ApiFailure == "BinanceAPIException"

\* except clauses that take up the cycle where it was after the pause
run_except_resumes(e) ==
    IF e = ClockSkew
    THEN [sleep |-> CYCLE_SLEEP, notify |-> 0, pc |-> "symbol"]
    ELSE [sleep |-> 0, notify |-> 1, pc |-> "exited"]

\* except clauses that exit without telling anyone
run_except_silent(e) ==
    IF e = ClockSkew
    THEN [sleep |-> CYCLE_SLEEP, notify |-> 0, pc |-> "loop"]
    ELSE [sleep |-> 0, notify |-> 0, pc |-> "exited"]

\* the except clauses of run: the timestamp error pauses and goes round the
\* loop again, anything else notifies and exits
run_except(e) ==
    IF e = ClockSkew
    THEN [sleep |-> CYCLE_SLEEP, notify |-> 0, pc |-> "loop"]
    ELSE [sleep |-> 0, notify |-> 1, pc |-> "exited"]

\* an iteration in a stopped hour: run_strategy_cycle returns at once
CycleHalted ==
    /\ pc = "loop"
    /\ \E current_hour_utc \in 0..23, total_value \in TotalValueInputs :
       \E r \in {run_strategy_cycle(current_hour_utc, total_value)} :
          /\ ~r.checked
          /\ active_strategy' = r.strategy
          /\ pc' = r.pc
    /\ ps' = PsInit
    /\ UNCHANGED <<trade_log, log_exists, now, idx, portfolio_safe, open_positions,
                   next_order_id, notifications, restarts>>

\* an iteration in a trading hour: the profile is selected and the portfolio
\* check gives its verdict for the cycle
CycleBegin ==
    /\ pc = "loop"
    /\ \E current_hour_utc \in 0..23, total_value \in TotalValueInputs :
       \E r \in {run_strategy_cycle(current_hour_utc, total_value)} :
          /\ r.checked
          /\ active_strategy' = r.strategy
          /\ portfolio_safe' = r.is_safe
          /\ pc' = r.pc
          /\ ps' = [PsInit EXCEPT !.total_value = total_value]
    /\ idx' = 1
    /\ UNCHANGED <<trade_log, log_exists, now, open_positions, next_order_id,
                   notifications, restarts>>

\* get_account raises the timestamp error (-1021) inside the portfolio check:
\* the handler sleeps a full interval and the loop starts over
CycleClockSkew ==
    /\ pc = "loop"
    /\ \E current_hour_utc \in 0..23 :
          /\ SelectStrategy(current_hour_utc) # "halted"
          /\ active_strategy' = SelectStrategy(current_hour_utc)
    /\ \E h \in {run_except(ClockSkew)} :
          /\ now + h.sleep <= MaxTime
          /\ now' = now + h.sleep
          /\ notifications' = notifications + h.notify
          /\ pc' = h.pc
    /\ ps' = [PsInit EXCEPT !.call = "run_strategy_cycle", !.raised = ClockSkew]
    /\ UNCHANGED <<trade_log, log_exists, idx, portfolio_safe, open_positions,
                   next_order_id, restarts>>

\* get_account raises anything else inside the portfolio check: notify and exit
CycleFatal ==
    /\ pc = "loop"
    /\ \E current_hour_utc \in 0..23 :
          /\ SelectStrategy(current_hour_utc) # "halted"
          /\ active_strategy' = SelectStrategy(current_hour_utc)
    /\ \E h \in {run_except(ApiFailure)} :
          /\ now' = now + h.sleep
          /\ notifications' = notifications + h.notify
          /\ pc' = h.pc
    /\ ps' = [PsInit EXCEPT !.call = "run_strategy_cycle", !.raised = ApiFailure]
    /\ UNCHANGED <<trade_log, log_exists, idx, portfolio_safe, open_positions,
                   next_order_id, restarts>>

\* the answers that can matter to process_symbol: the klines are asked for only
\* past the canary check, a balance and a price only on the way to an order
NoAnswer ==
    [btc_balance |-> 0, btc_price |-> None, klines |-> <<>>, balance |-> 0,
     price |-> None, response |-> [accepted |-> FALSE, fill |-> "none"]]

CanaryInputs(product_id) ==
    IF ContainsBTC(product_id)
    THEN {[NoAnswer EXCEPT !.btc_balance = b, !.btc_price = p] :
              b \in BalanceInputs, p \in PriceInputs}
    ELSE {NoAnswer}

MarketInputs(product_id, params, e) ==
    IF ContainsBTC(product_id) /\ ~check_binance_btc_balance(e.btc_balance, e.btc_price)
    THEN {e}
    ELSE {[e EXCEPT !.klines = k] : k \in KlineInputs}

OrderInputs(params, e) ==
    IF e.klines = <<>> \/ check_market_crash(e.klines) # "False"
       \/ generate_signal(e.klines, params)[1] = "HOLD"
    THEN {e}
    ELSE {[e EXCEPT !.balance = b, !.price = p, !.response = r] :
              b \in BalanceInputs, p \in PriceInputs \ {30}, r \in ResponseInputs}

\* one pass of the product loop: process_symbol, and the handlers of run for an
\* exception it lets escape
ProcessSymbol ==
    /\ pc = "symbol"
    /\ \E e1 \in CanaryInputs(Products[idx]) :
       \E e2 \in MarketInputs(Products[idx], StrategyParams(active_strategy), e1) :
       \E env \in OrderInputs(StrategyParams(active_strategy), e2) :
       \E r \in {process_symbol([rows |-> trade_log, exists |-> log_exists],
                                open_positions[Products[idx]], now, Products[idx],
                                portfolio_safe, StrategyParams(active_strategy),
                                env, next_order_id)} :
             /\ trade_log' = r.rows
             /\ log_exists' = r.exists
             /\ open_positions' = [open_positions EXCEPT ![Products[idx]] = r.flag]
             /\ next_order_id' = IF r.ps.accepted THEN next_order_id + 1
                                 ELSE next_order_id
             /\ ps' = r.ps
             /\ IF r.ps.raised = "none"
                THEN pc' = "pause" /\ notifications' = notifications
                ELSE \E h \in {run_except(r.ps.raised)} :
                        /\ pc' = h.pc
                        /\ notifications' = notifications + h.notify
    /\ UNCHANGED <<now, idx, active_strategy, portfolio_safe, restarts>>

\* time.sleep(2) after each product, then the next product or the end of the cycle
SymbolPause ==
    /\ pc = "pause"
    /\ now + SYMBOL_DELAY <= MaxTime
    /\ now' = now + SYMBOL_DELAY
    /\ IF idx < Len(Products)
       THEN idx' = idx + 1 /\ pc' = "symbol"
       ELSE idx' = idx /\ pc' = "sleep"
    /\ ps' = PsInit
    /\ UNCHANGED <<trade_log, log_exists, active_strategy, portfolio_safe,
                   open_positions, next_order_id, notifications, restarts>>

\* time.sleep(60) at the end of a full cycle
CycleSleep ==
    /\ pc = "sleep"
    /\ now + CYCLE_SLEEP <= MaxTime
    /\ now' = now + CYCLE_SLEEP
    /\ pc' = "loop"
    /\ UNCHANGED <<trade_log, log_exists, idx, active_strategy, portfolio_safe,
                   open_positions, next_order_id, notifications, restarts, ps>>

\* the process is started again, having exited or been stopped in one of its
\* sleeps (where its time passes): TradingBot.__init__
Restart ==
    /\ pc \in {"pause", "sleep", "exited"}
    /\ restarts < MaxRestarts
    /\ restarts' = restarts + 1
    /\ open_positions' = ClosedPositions
    /\ pc' = "loop"
    /\ idx' = 1
    /\ active_strategy' = "none"
    /\ portfolio_safe' = TRUE
    /\ ps' = PsInit
    /\ UNCHANGED <<trade_log, log_exists, now, next_order_id, notifications>>

Next ==
    \/ CycleHalted
    \/ CycleBegin
    \/ CycleClockSkew
    \/ CycleFatal
    \/ ProcessSymbol
    \/ SymbolPause
    \/ CycleSleep
    \/ Restart

Spec == Init /\ [][Next]_vars

---------------------------------------------------------------------------
(* The ledger functions on their own: any sequence of log_trade and           *)
(* get_last_buy_for_symbol calls, the clock advancing between calls or not.   *)

HarnessTick ==
    /\ now < MaxStamp
    /\ now' = now + 1
    /\ UNCHANGED <<trade_log, log_exists, pc, idx, active_strategy, portfolio_safe,
                   open_positions, next_order_id, notifications, restarts, ps>>

LogTradeCall ==
    /\ Len(trade_log) < MaxCalls
    /\ \E product_id \in ProductSet, side \in {"BUY", "SELL"} :
          /\ trade_log' = log_trade(trade_log,
                              LogEntry(now, LogSymbol(product_id), side,
                                       [num |-> 5, den |-> 1], 1, 5, next_order_id, 0))
          /\ ps' = [PsInit EXCEPT !.call = "log_trade", !.product_id = product_id]
    /\ log_exists' = TRUE
    /\ next_order_id' = next_order_id + 1
    /\ UNCHANGED <<now, pc, idx, active_strategy, portfolio_safe, open_positions,
                   notifications, restarts>>

ResolveCall ==
    /\ \E product_id \in ProductSet :
       \E log \in {read_log([rows |-> trade_log, exists |-> log_exists])} :
          /\ trade_log' = log.rows
          /\ log_exists' = log.exists
          /\ ps' = [PsInit EXCEPT
                        !.call = "get_last_buy_for_symbol",
                        !.product_id = product_id,
                        !.log_read = TRUE,
                        !.log_len = Len(log.rows),
                        !.last_buy = get_last_buy_for_symbol(log.rows,
                                                             LogSymbol(product_id)),
                        !.again = (ps.call = "get_last_buy_for_symbol"
                                   /\ ps.product_id = product_id)]
    /\ UNCHANGED <<now, pc, idx, active_strategy, portfolio_safe, open_positions,
                   next_order_id, notifications, restarts>>

NextResolver == HarnessTick \/ LogTradeCall \/ ResolveCall

SpecResolver == Init /\ [][NextResolver]_vars

---------------------------------------------------------------------------
(* check_market_crash on its own, on every series of closes within the bounds *)

CloseValues == {5 * u : u \in 0..MaxCloseUnits}
CloseSeries == UNION {[1..n -> CloseValues] : n \in 0..MaxBars}

InitCrash ==
    /\ trade_log = <<>>
    /\ log_exists = FALSE
    /\ now = 0
    /\ pc = "loop"
    /\ idx = 1
    /\ active_strategy = "none"
    /\ portfolio_safe = TRUE
    /\ open_positions = ClosedPositions
    /\ next_order_id = 1
    /\ notifications = 0
    /\ restarts = 0
    /\ \E df \in CloseSeries : ps = [PsInit EXCEPT !.df = df]

CrashCall ==
    /\ ps.call = "none"
    /\ ps' = [ps EXCEPT !.call = "check_market_crash",
                        !.crash = check_market_crash(ps.df)]
    /\ UNCHANGED <<trade_log, log_exists, now, pc, idx, active_strategy,
                   portfolio_safe, open_positions, next_order_id, notifications,
                   restarts>>

NextCrash == CrashCall

SpecCrash == InitCrash /\ [][NextCrash]_vars

---------------------------------------------------------------------------
(* The trading window on its own: run_strategy_cycle reads the hour off the   *)
(* clock at the start of each cycle, hour after hour.                         *)

SECONDS_PER_HOUR == 3600

\* datetime.now(UTC).hour
HourOf(clock) == (clock \div SECONDS_PER_HOUR) % 24

WindowTick ==
    /\ now + SECONDS_PER_HOUR <= MaxHours * SECONDS_PER_HOUR
    /\ now' = now + SECONDS_PER_HOUR
    /\ UNCHANGED <<trade_log, log_exists, pc, idx, active_strategy, portfolio_safe,
                   open_positions, next_order_id, notifications, restarts, ps>>

WindowCycle ==
    /\ \E total_value \in TotalValueInputs :
       \E r \in {run_strategy_cycle(HourOf(now), total_value)} :
          /\ active_strategy' = r.strategy
          /\ portfolio_safe' = IF r.checked THEN r.is_safe ELSE portfolio_safe
    /\ ps' = [PsInit EXCEPT !.call = "run_strategy_cycle",
                            !.current_hour_utc = HourOf(now)]
    /\ UNCHANGED <<trade_log, log_exists, now, pc, idx, open_positions,
                   next_order_id, notifications, restarts>>

NextWindow == WindowTick \/ WindowCycle

SpecWindow == Init /\ [][NextWindow]_vars

---------------------------------------------------------------------------
(* generate_signal on its own: every series of closes within the bounds and   *)
(* the klines of the trading loop, under the two configured profiles and two  *)
(* profiles with short windows, the oscillator period of the second longer    *)
(* than its long window.                                                      *)

\* a profile and a series of closes to follow bar by bar
ScenarioProfile ==
    [short_sma |-> 2, long_sma |-> 3, rsi_period |-> 2, rsi_overbought |-> 70]
ScenarioCloses == <<10, 10, 10, 11, 12, 13>>
ScenarioPrefix(k) == SubSeq(ScenarioCloses, 1, k)

SignalProfiles ==
    {STRATEGY_MODERATE, STRATEGY_AGGRESSIVE, ScenarioProfile,
     [short_sma |-> 2, long_sma |-> 3, rsi_period |-> 3, rsi_overbought |-> 75],
     [short_sma |-> 2, long_sma |-> 3, rsi_period |-> 5, rsi_overbought |-> 75]}

SignalSeries ==
    KlineInputs \cup UNION {[1..n -> 1..MaxPrice] : n \in 0..MaxSignalBars}
                \cup {ScenarioPrefix(k) : k \in 1..Len(ScenarioCloses)}

InitSignal ==
    /\ trade_log = <<>>
    /\ log_exists = FALSE
    /\ now = 0
    /\ pc = "loop"
    /\ idx = 1
    /\ active_strategy = "none"
    /\ portfolio_safe = TRUE
    /\ open_positions = ClosedPositions
    /\ next_order_id = 1
    /\ notifications = 0
    /\ restarts = 0
    /\ \E df \in SignalSeries, params \in SignalProfiles :
          ps = [PsInit EXCEPT !.df = df, !.strategy_params = params]

SignalCall ==
    /\ ps.call = "none"
    /\ \E sig \in {generate_signal(ps.df, ps.strategy_params)} :
          ps' = [ps EXCEPT !.call = "generate_signal", !.signal = sig[1],
                           !.reason = sig[2],
                           !.rsi = IF ps.df = <<>> THEN <<>>
                                   ELSE <<RSI(ps.df, ps.strategy_params.rsi_period,
                                              Len(ps.df))>>]
    /\ UNCHANGED <<trade_log, log_exists, now, pc, idx, active_strategy,
                   portfolio_safe, open_positions, next_order_id, notifications,
                   restarts>>

NextSignal == SignalCall

SpecSignal == InitSignal /\ [][NextSignal]_vars

---------------------------------------------------------------------------
(* The notifications of the loop: run_scheduled_tasks at the top of every     *)
(* iteration, the strategy cycle after it, and the error notification of the  *)
(* handlers of run. The cycle is taken as a whole: it returns or it raises.   *)

MaxTaskTime == 320
SECONDS_PER_DAY == 86400

\* what can go wrong in delivering a message
NotifierOutcomes == {"ok", "unconfigured", "execute_fails"}

\* what can go wrong in the daily task before the message is handed over
TaskFailures == {"none", "get_enriched_balances", "read_log", "send_daily_summary"}

\* notifier.send_error_notification: returns without sending when no webhook is
\* configured, catches whatever webhook.execute raises
send_error_notification(outcome) ==
    [delivered |-> outcome = "ok",
     result |-> IF outcome = "ok" THEN "sent"
                ELSE IF outcome = "unconfigured" THEN "unconfigured" ELSE "failed",
     raised |-> "none"]

\* notifier.send_daily_summary: as above for the sending; an exception raised
\* while the message is built leaves the function
send_daily_summary(failure, outcome) ==
    IF outcome = "unconfigured"
    THEN [result |-> "unconfigured", raised |-> "none"]
    ELSE IF failure = "send_daily_summary"
    THEN [result |-> "failed", raised |-> "Exception"]
    ELSE [result |-> IF outcome = "ok" THEN "sent" ELSE "failed", raised |-> "none"]

\* a daily task without its try/except
run_scheduled_tasks_unguarded(clock, last_notification_time, failure, outcome) ==
    IF ~(clock - last_notification_time > SECONDS_PER_DAY)
    THEN [summary |-> "not_due", last_notification_time |-> last_notification_time,
          raised |-> "none"]
    ELSE IF failure \in {"get_enriched_balances", "read_log"}
    THEN [summary |-> "failed", last_notification_time |-> last_notification_time,
          raised |-> "Exception"]
    ELSE LET d == send_daily_summary(failure, outcome)
         IN IF d.raised # "none"
            THEN [summary |-> "failed",
                  last_notification_time |-> last_notification_time,
                  raised |-> d.raised]
            ELSE [summary |-> d.result, last_notification_time |-> clock,
                  raised |-> "none"]

\* run_scheduled_tasks: the daily task when more than a day has passed since
\* the timer was set; an exception anywhere in it is caught and printed, and
\* the timer is then left as it was
run_scheduled_tasks(clock, last_notification_time, failure, outcome) ==
    IF ~(clock - last_notification_time > SECONDS_PER_DAY)
    THEN [summary |-> "not_due", last_notification_time |-> last_notification_time,
          raised |-> "none"]
    ELSE IF failure \in {"get_enriched_balances", "read_log"}
    THEN [summary |-> "failed", last_notification_time |-> last_notification_time,
          raised |-> "none"]
    ELSE LET d == send_daily_summary(failure, outcome)
         IN IF d.raised # "none"
            THEN [summary |-> "failed",
                  last_notification_time |-> last_notification_time,
                  raised |-> "none"]
            ELSE [summary |-> d.result, last_notification_time |-> clock,
                  raised |-> "none"]

\* TradingBot.__init__ sets the timer a day back; the first test of it comes
\* later than that, here by one unit of the clock
InitTasks ==
    /\ trade_log = <<>>
    /\ log_exists = FALSE
    /\ now = 0
    /\ pc = "loop"
    /\ idx = 1
    /\ active_strategy = "none"
    /\ portfolio_safe = TRUE
    /\ open_positions = ClosedPositions
    /\ next_order_id = 1
    /\ notifications = 0
    /\ restarts = 0
    /\ ps = [PsInit EXCEPT !.last_notification_time = 0 - SECONDS_PER_DAY - 1]

\* the top of an iteration: run_scheduled_tasks, and the handlers of run for
\* what it lets escape
TasksRun ==
    /\ pc = "loop"
    /\ \E failure \in TaskFailures, outcome \in NotifierOutcomes :
       \E r \in {run_scheduled_tasks(now, ps.last_notification_time, failure, outcome)} :
          /\ ps' = [ps EXCEPT !.call = "run_scheduled_tasks", !.summary = r.summary,
                              !.last_notification_time = r.last_notification_time,
                              !.raised = r.raised]
          /\ IF r.raised = "none"
             THEN pc' = "cycle" /\ notifications' = notifications
             ELSE \E h \in {run_except(r.raised)} :
                     /\ pc' = h.pc
                     /\ notifications' = notifications + h.notify
    /\ UNCHANGED <<trade_log, log_exists, now, idx, active_strategy, portfolio_safe,
                   open_positions, next_order_id, restarts>>

\* the strategy cycle of the iteration returns: a stopped hour, or the product
\* loop with its pauses
TasksCycle ==
    /\ pc = "cycle"
    /\ \E current_hour_utc \in 0..23, total_value \in TotalValueInputs :
       \E r \in {run_strategy_cycle(current_hour_utc, total_value)} :
          /\ active_strategy' = r.strategy
          /\ portfolio_safe' = IF r.checked THEN r.is_safe ELSE portfolio_safe
          /\ now' = now + (IF r.checked THEN Len(Products) * SYMBOL_DELAY ELSE 0)
    /\ now' <= MaxTaskTime
    /\ pc' = "sleep"
    /\ ps' = [ps EXCEPT !.call = "run_strategy_cycle"]
    /\ UNCHANGED <<trade_log, log_exists, idx, open_positions, next_order_id,
                   notifications, restarts>>

\* the strategy cycle raises what the handlers of run take for fatal: they call
\* send_error_notification and exit
TasksFatal ==
    /\ pc = "cycle"
    /\ \E outcome \in NotifierOutcomes :
       \E h \in {run_except(ApiFailure)}, n \in {send_error_notification(outcome)} :
          /\ ps' = [ps EXCEPT !.call = "run_strategy_cycle", !.raised = ApiFailure,
                              !.notifier = n.result]
          /\ notifications' = notifications + h.notify
          /\ pc' = IF n.raised = "none" THEN h.pc ELSE "exited"
    /\ UNCHANGED <<trade_log, log_exists, now, idx, active_strategy, portfolio_safe,
                   open_positions, next_order_id, restarts>>

\* time.sleep(60), then the next iteration
TasksSleep ==
    /\ pc = "sleep"
    /\ now + CYCLE_SLEEP <= MaxTaskTime
    /\ now' = now + CYCLE_SLEEP
    /\ pc' = "loop"
    /\ UNCHANGED <<trade_log, log_exists, idx, active_strategy, portfolio_safe,
                   open_positions, next_order_id, notifications, restarts, ps>>

NextTasks ==
    \/ TasksRun
    \/ TasksCycle
    \/ TasksFatal
    \/ TasksSleep

SpecTasks == InitTasks /\ [][NextTasks]_vars

---------------------------------------------------------------------------
(* Properties *)

\* the rows of one symbol, in append order
RecordsOf(rows, symbol) == SelectSeq(rows, LAMBDA r : r.symbol = symbol)
BuysOf(rows, symbol) == SelectSeq(rows, LAMBDA r : r.symbol = symbol /\ r.side = "BUY")
SellsOf(rows, symbol) == SelectSeq(rows, LAMBDA r : r.symbol = symbol /\ r.side = "SELL")
Last(rows) == rows[Len(rows)]

\* the ledger as the call that has just returned read it
LedgerRead == SubSeq(trade_log, 1, ps.log_len)
Queried == LogSymbol(ps.product_id)

\* the percent change of the last two closes is below the crash threshold
BelowCrashThreshold(df) ==
    /\ Len(df) >= 2
    /\ df[Len(df) - 1] # 0
    /\ (df[Len(df)] - df[Len(df) - 1]) * 100
          < MARKET_CRASH_THRESHOLD_PERCENT * df[Len(df) - 1]

\* C1: for every symbol, the ledger records of that symbol, in append order,
\* alternate BUY, SELL, BUY, ... starting with BUY.
C1_LedgerAlternates ==
    \A symbol \in LogSymbols :
        LET recs == RecordsOf(trade_log, symbol)
        IN \A i \in 1..Len(recs) :
              recs[i].side = IF i % 2 = 1 THEN "BUY" ELSE "SELL"

\* C2: execute_buy is invoked only when generate_signal returned BUY, the resolver
\* returned CLOSED for the symbol in this call and the cycle's portfolio check
\* returned safe; execute_sell only when the signal is SELL and the resolver
\* returned OPEN.
C2_ExecuteGuards ==
    ps.call = "process_symbol" =>
        /\ ps.executed = "buy" =>
              /\ ps.signal = "BUY"
              /\ ps.log_read /\ ps.last_buy = <<>>
              /\ portfolio_safe
        /\ ps.executed = "sell" =>
              /\ ps.signal = "SELL"
              /\ ps.log_read /\ ps.last_buy # <<>>

\* a buy executed and logged for a symbol the ledger already held rows of
C2_Witness ==
    /\ ps.call = "process_symbol"
    /\ ps.executed = "buy" /\ ps.logged
    /\ RecordsOf(LedgerRead, Queried) # <<>>

\* C3 as stated: whenever the resolved position is OPEN and the indicator data
\* yields SELL, execute_sell is invoked, whatever the portfolio, crash and canary
\* checks say.
C3_NoRiskCheckBlocksExit ==
    (/\ ps.call = "process_symbol"
     /\ ps.log_read /\ ps.last_buy # <<>>
     /\ generate_signal(ps.df, StrategyParams(active_strategy))[1] = "SELL")
        => ps.executed = "sell"

\* C3 amended: the portfolio check never blocks an exit.  In a call that passes
\* the canary check (or is not subject to it) and finds no crash, a resolved
\* OPEN position and a SELL signal lead to execute_sell whatever the portfolio
\* verdict; a failed canary check or a detected crash ends the call with
\* neither execute_buy nor execute_sell invoked.
C3_OnlyPortfolioCheckIsAdvisory ==
    ps.call = "process_symbol" =>
        /\ (/\ ps.canary # "unsafe" /\ ps.crash = "False"
            /\ ps.last_buy # <<>> /\ ps.signal = "SELL") => ps.executed = "sell"
        /\ (ps.canary = "unsafe" \/ (ps.fetched /\ BelowCrashThreshold(ps.df)))
              => ps.executed = "none"

\* a sell executed and logged in a cycle whose portfolio check denied buys
C3_Witness ==
    /\ ps.call = "process_symbol"
    /\ ~portfolio_safe
    /\ ps.executed = "sell" /\ ps.logged

\* C4: a detected crash is a normal decision: no signal is generated, no order
\* is placed, no exception propagates and the loop goes on to the next symbol.
C4_CrashIsADecision ==
    (ps.call = "process_symbol" /\ ps.log_read /\ BelowCrashThreshold(ps.df)) =>
        /\ ps.signal = "none" /\ ps.executed = "none" /\ ~ps.submitted
        /\ ps.raised = "none"
        /\ pc = "pause"

\* C5: check_market_crash returns a boolean for every input: True when the
\* percent change of the last two closes is strictly below the threshold, False
\* otherwise (fewer than two bars, a previous close of 0, a smaller drop).
C5_CrashCheckReturnsBoolean ==
    ps.call = "check_market_crash" =>
        ps.crash = IF BelowCrashThreshold(ps.df) THEN "True" ELSE "False"

\* C6: when the canary price is unavailable or balance x price is below the
\* floor, the check answers unsafe and the call fetches no klines, generates no
\* signal and places no order; a symbol without the canary asset is not checked
\* and goes on to the fetch.
C6_CanaryFailsClosed ==
    ps.call = "process_symbol" =>
        /\ (/\ ContainsBTC(ps.product_id)
            /\ \/ ps.btc_price = None
               \/ ps.btc_balance * ps.btc_price < BINANCE_BTC_MIN_VALUE)
              => /\ ps.canary = "unsafe"
                 /\ ~ps.fetched /\ ~ps.log_read
                 /\ ps.signal = "none" /\ ps.executed = "none"
                 /\ ~ps.submitted /\ ~ps.logged
        /\ ~ContainsBTC(ps.product_id) => ps.canary = "skipped" /\ ps.fetched

\* the canary check has failed closed on an unavailable price
C6_Witness ==
    /\ ps.call = "process_symbol"
    /\ ps.btc_price = None /\ ps.btc_balance > 0
    /\ ps.canary = "unsafe"

\* C7: get_last_buy_for_symbol returns a BUY record exactly when the most
\* recently recorded trade of the symbol is a BUY, and that record is the
\* symbol's most recent BUY.
C7_OpenIffLastRecordIsBuy ==
    ps.log_read =>
        LET recs == RecordsOf(LedgerRead, Queried)
        IN /\ (ps.last_buy # <<>>) <=> (recs # <<>> /\ Last(recs).side = "BUY")
           /\ ps.last_buy # <<>> => ps.last_buy = <<Last(BuysOf(LedgerRead, Queried))>>

\* C8: with a single BUY of the symbol the resolver returns that BUY; after a
\* SELL with a later timestamp it returns None; after a second BUY later than
\* that SELL it returns the second BUY; rows of other symbols in between change
\* nothing.
C8_RoundTrip ==
    ps.call = "get_last_buy_for_symbol" =>
        LET recs == RecordsOf(LedgerRead, Queried)
            sides == [i \in 1..Len(recs) |-> recs[i].side]
            rising == \A i \in 1..(Len(recs) - 1) :
                          recs[i + 1].timestamp > recs[i].timestamp
        IN /\ sides = <<"BUY">> => ps.last_buy = <<recs[1]>>
           /\ (sides = <<"BUY", "SELL">> /\ rising) => ps.last_buy = <<>>
           /\ (sides = <<"BUY", "SELL", "BUY">> /\ rising) => ps.last_buy = <<recs[3]>>

\* the second BUY is returned, rows of another symbol lying between the BUY and
\* the SELL
C8_Witness ==
    /\ ps.call = "get_last_buy_for_symbol"
    /\ Len(trade_log) = 4
    /\ trade_log[1].symbol = Queried /\ trade_log[1].side = "BUY"
    /\ trade_log[2].symbol # Queried
    /\ trade_log[3].symbol = Queried /\ trade_log[3].side = "SELL"
    /\ trade_log[3].timestamp > trade_log[1].timestamp
    /\ trade_log[4].symbol = Queried /\ trade_log[4].side = "BUY"
    /\ trade_log[4].timestamp > trade_log[3].timestamp
    /\ ps.last_buy = <<trade_log[4]>>

C10_ResolverIsARead ==
    [][ps'.call = "get_last_buy_for_symbol" =>
          /\ trade_log' = trade_log
          /\ (ps.call = "get_last_buy_for_symbol" /\ ps.product_id = ps'.product_id)
                => ps'.last_buy = ps.last_buy]_vars

\* the resolver called twice in a row for a symbol with an open position
C10_Witness ==
    /\ ps.call = "get_last_buy_for_symbol"
    /\ ps.again
    /\ ps.last_buy # <<>>
    /\ Len(trade_log) >= 2

C12_OneAppendPerSuccess ==
    [][/\ (pc = "symbol" /\ ps'.call = "process_symbol") =>
             /\ ps'.product_id = Products[idx]
             /\ pc' \in {"pause", "exited"}
             /\ ps'.details # <<>> =>
                   /\ ps'.executed # "none"
                   /\ Len(trade_log') = Len(trade_log) + 1
                   /\ SubSeq(trade_log', 1, Len(trade_log)) = trade_log
                   /\ Last(trade_log').symbol = LogSymbol(ps'.product_id)
                   /\ Last(trade_log').side = IF ps'.executed = "buy" THEN "BUY"
                                                                      ELSE "SELL"
                   /\ Last(trade_log').order_id = ps'.details[1].order_id
             /\ ps'.details = <<>> =>
                   /\ trade_log' = trade_log
                   /\ ps'.log_read =>
                         /\ get_last_buy_for_symbol(trade_log',
                                LogSymbol(ps'.product_id)) = ps'.last_buy
                         /\ open_positions'[ps'.product_id] = (ps'.last_buy # <<>>)
       /\ trade_log' # trade_log => (pc = "symbol" /\ ps'.call = "process_symbol")
       /\ (pc = "pause" /\ pc' = "symbol") => idx' = idx + 1
       /\ (pc = "loop" /\ pc' = "symbol") => idx' = 1]_vars

\* a sell order the exchange rejected, for a symbol with rows in the ledger
C12_Witness ==
    /\ ps.call = "process_symbol"
    /\ ps.executed = "sell" /\ ps.order = "rejected" /\ ~ps.logged
    /\ RecordsOf(trade_log, Queried) # <<>>

\* C13: every row appended, BUY or SELL, carries the average fill price and the
\* filled quantity that place_limit_order returned for the order.
C13_RecordsCarryFill ==
    (ps.call = "process_symbol" /\ ps.logged) =>
        /\ Last(trade_log).price = ps.details[1].price
        /\ Last(trade_log).quantity = ps.details[1].quantity

\* C14: the decision of a process_symbol call is the one the Position Resolver's
\* answer on the ledger as it stands dictates, whatever the process held in
\* memory before the call: a restarted process, its flags reset to CLOSED,
\* decides as one that was never restarted.
C14_RestartSafe ==
    (ps.call = "process_symbol" /\ ps.log_read /\ ps.crash = "False") =>
        LET resolved == get_last_buy_for_symbol(LedgerRead, Queried) # <<>>
        IN /\ ps.executed = Decide(ps.signal, resolved, portfolio_safe)
           /\ (ps.last_buy # <<>>) = resolved

\* after a restart, a position opened before it is found OPEN and sold
C14_Witness ==
    /\ restarts > 0
    /\ ps.call = "process_symbol"
    /\ ps.last_buy # <<>>
    /\ ps.executed = "sell" /\ ps.logged

\* C15: every hour 0..23 maps to exactly one of halted, aggressive and moderate,
\* the stopped and the aggressive hours are disjoint, and the profile of a cycle
\* is the one of the hour read at its start, whatever the cycle before selected.
C15_SelectionIsAPartition ==
    /\ stop_hours \cap aggressive_hours = {}
    /\ \A h \in 0..23 :
          /\ SelectStrategy(h) \in {"halted", "aggressive", "moderate"}
          /\ SelectStrategy(h) = "halted" <=> h \in stop_hours
          /\ SelectStrategy(h) = "aggressive" <=> h \in aggressive_hours
    /\ ps.call = "run_strategy_cycle" =>
          /\ ps.current_hour_utc \in 0..23
          /\ active_strategy =
                 IF ps.current_hour_utc \in stop_hours THEN "halted"
                 ELSE IF ps.current_hour_utc \in aggressive_hours THEN "aggressive"
                 ELSE "moderate"

\* on the second day, a cycle in a stopped hour
C15_Witness ==
    /\ ps.call = "run_strategy_cycle"
    /\ now >= 24 * SECONDS_PER_HOUR
    /\ ps.current_hour_utc = 2
    /\ active_strategy = "halted"

\* C16: a cycle in a stopped hour returns at once: the step that selects
\* "halted" goes to the end-of-cycle sleep and leaves the portfolio verdict, the
\* ledger, the order counter and the position flags as they were; no product is
\* processed under "halted".
C16_HaltedCycleDoesNothing ==
    /\ [](active_strategy = "halted" => pc \in {"sleep", "loop"})
    /\ [][(pc = "loop" /\ active_strategy' = "halted") =>
             /\ pc' = "sleep"
             /\ UNCHANGED <<trade_log, log_exists, portfolio_safe, open_positions,
                            next_order_id, notifications, now, idx>>
             /\ ps'.call = "none"]_vars

\* a stopped hour comes after a cycle that traded
C16_Witness ==
    /\ active_strategy = "halted"
    /\ pc = "sleep"
    /\ trade_log # <<>>

\* C20: the step in which the timestamp error is raised sends no notification,
\* places no order, writes nothing, pauses a full interval and leaves the
\* process at the top of the loop, not exited; the product loop is entered only
\* from the top of the loop and at the first product.
C20_ClockSkewRestartsCycle ==
    /\ [](ps.raised = ClockSkew => pc = "loop")
    /\ [][/\ ps'.raised = ClockSkew =>
                /\ pc = "loop" /\ pc' = "loop"
                /\ now' = now + CYCLE_SLEEP
                /\ notifications' = notifications
                /\ UNCHANGED <<trade_log, log_exists, next_order_id, open_positions>>
          /\ (pc # "pause" /\ pc' = "symbol") => (pc = "loop" /\ idx' = 1)]_vars

\* a cycle that runs, and trades, at the second the pause after the timestamp
\* error ends
C20_Witness ==
    /\ restarts = 0
    /\ now = CYCLE_SLEEP
    /\ ps.call = "process_symbol"
    /\ ps.executed = "buy" /\ ps.logged

\* the indicator points generate_signal compares, on the series and profile of
\* the call that has just returned
CrossOver ==
    LET df == ps.df  n == Len(ps.df)
        s == ps.strategy_params.short_sma  l == ps.strategy_params.long_sma
    IN /\ n - 1 >= l
       /\ SumRange(df, n - s, n - 1) * l <= SumRange(df, n - l, n - 1) * s
       /\ SumRange(df, n - s + 1, n) * l > SumRange(df, n - l + 1, n) * s
CrossUnder ==
    LET df == ps.df  n == Len(ps.df)
        s == ps.strategy_params.short_sma  l == ps.strategy_params.long_sma
    IN /\ n - 1 >= l
       /\ SumRange(df, n - s, n - 1) * l >= SumRange(df, n - l, n - 1) * s
       /\ SumRange(df, n - s + 1, n) * l < SumRange(df, n - l + 1, n) * s
Oscillator == RSI(ps.df, ps.strategy_params.rsi_period, Len(ps.df))
BelowOverbought ==
    Oscillator.num < ps.strategy_params.rsi_overbought * Oscillator.den
AboveOverbought ==
    Oscillator.num > ps.strategy_params.rsi_overbought * Oscillator.den

\* C17: on a series with fewer bars than the long window generate_signal
\* returns HOLD, whatever the closes.
C17_ShortHistoryHolds ==
    (ps.call = "generate_signal" /\ Len(ps.df) < ps.strategy_params.long_sma)
        => ps.signal = "HOLD"

\* one bar short of the long window, the last close above the one before
C17_Witness ==
    /\ ps.call = "generate_signal"
    /\ Len(ps.df) = ps.strategy_params.long_sma - 1
    /\ ps.df[Len(ps.df)] > ps.df[Len(ps.df) - 1]
    /\ ps.signal = "HOLD"

\* C18: with the averages defined at the current step the rules apply in
\* order: BUY iff crossover and oscillator < overbought; else SELL for the
\* overbought reason iff oscillator > overbought; else SELL for the death cross
\* iff crossunder; else HOLD.
C18_RulePriority ==
    (ps.call = "generate_signal" /\ Len(ps.df) >= ps.strategy_params.long_sma) =>
        LET buy == CrossOver /\ BelowOverbought
        IN /\ ps.signal = "BUY" <=> buy
           /\ (ps.signal = "SELL" /\ ps.reason = "Aggressive Sell: RSI Overbought")
                 <=> (~buy /\ AboveOverbought)
           /\ (ps.signal = "SELL" /\ ps.reason = "Death Cross")
                 <=> (~buy /\ ~AboveOverbought /\ CrossUnder)
           /\ ps.signal = "HOLD" <=> (~buy /\ ~AboveOverbought /\ ~CrossUnder)
           /\ ps.signal \in {"BUY", "SELL", "HOLD"}

\* a crossunder with the oscillator above overbought, reported as overbought
C18_Witness ==
    /\ ps.call = "generate_signal"
    /\ Len(ps.df) >= ps.strategy_params.long_sma
    /\ CrossUnder /\ AboveOverbought
    /\ ps.signal = "SELL" /\ ps.reason = "Aggressive Sell: RSI Overbought"

\* C19: generate_signal returns one of BUY, SELL, HOLD with a reason, and HOLD
\* whenever the short average, the long average or the oscillator is still
\* warming up at the current step.
C19_WarmUpHolds ==
    ps.call = "generate_signal" =>
        /\ ps.signal \in {"BUY", "SELL", "HOLD"}
        /\ ps.reason # ""
        /\ (\/ Len(ps.df) < ps.strategy_params.short_sma
            \/ Len(ps.df) < ps.strategy_params.long_sma
            \/ Len(ps.df) < ps.strategy_params.rsi_period)
              => ps.signal = "HOLD"

\* C21: a step in which an exception other than the timestamp error escapes a
\* cycle issues exactly one error notification and ends the process; the process
\* that has exited runs no cycle, places no order and appends no record (what
\* follows, if anything, is a new process started from outside).
C21_FatalNotifiesOnceAndExits ==
    /\ [][(pc # "exited" /\ ps'.raised \notin {"none", ClockSkew}) =>
             /\ notifications' = notifications + 1
             /\ pc' = "exited"
             /\ UNCHANGED <<trade_log, next_order_id, now>>]_vars
    /\ [][pc = "exited" =>
             /\ restarts' = restarts + 1
             /\ UNCHANGED <<trade_log, next_order_id, notifications, now>>]_vars
    /\ [](pc = "exited" => ps.raised \notin {"none", ClockSkew})

\* the process has exited on the exception of the crash check, a position open
C21_Witness ==
    /\ pc = "exited"
    /\ ps.call = "process_symbol" /\ ps.raised = CrashReport
    /\ notifications = 1
    /\ ps.last_buy # <<>>

\* the per-symbol failures that are not faults: no price history, no current
\* price, a quantity of zero after rounding, an order the exchange rejects
SoftFailure(p) ==
    /\ p.call = "process_symbol"
    /\ \/ (p.fetched /\ p.df = <<>>)
       \/ p.order \in {"no_price", "zero_quantity", "rejected"}

\* C22: a process_symbol call that meets a soft failure lets no exception escape
\* and writes no record, and the product loop goes on: after the pause the next
\* product is processed, or the cycle ends when there is none left.
C22_SoftFailuresContained ==
    /\ [][(pc = "symbol" /\ SoftFailure(ps')) =>
             /\ ps'.raised = "none" /\ ~ps'.logged
             /\ pc' = "pause"
             /\ UNCHANGED <<trade_log, notifications>>]_vars
    /\ [][(pc = "pause" /\ restarts' = restarts) =>
             IF idx < Len(Products) THEN pc' = "symbol" /\ idx' = idx + 1
                                    ELSE pc' = "sleep"]_vars

\* the first product of a cycle has had its order rejected and the loop waits
\* to go on to the second
C22_Witness ==
    /\ SoftFailure(ps)
    /\ ps.order = "rejected" /\ ps.executed = "buy"
    /\ pc = "pause" /\ idx < Len(Products)

\* C23: the portfolio check gives its verdict in the step that enters the
\* product loop and nowhere else in the cycle; the verdict is a denial exactly
\* when the total value is strictly below the safe threshold; every symbol of
\* the cycle is processed under that verdict; under a denial a symbol is still
\* analysed (a signal is generated whenever the crash check lets it through),
\* a SELL signal on an open position is still executed, and no buy is.
C23_PortfolioVerdictOncePerCycle ==
    /\ [][(pc = "loop" /\ pc' = "symbol") =>
             /\ ps'.total_value # None
             /\ portfolio_safe' = (ps'.total_value >= SAFE_PORTFOLIO_VALUE_THRESHOLD)
             /\ idx' = 1]_vars
    /\ [][(pc # "loop" /\ restarts' = restarts) =>
             portfolio_safe' = portfolio_safe]_vars
    /\ [](ps.call = "process_symbol" => ps.safe = portfolio_safe)
    /\ []((ps.call = "process_symbol" /\ ~ps.safe) =>
             /\ ps.crash = "False" => ps.signal \in {"BUY", "SELL", "HOLD"}
             /\ (ps.signal = "SELL" /\ ps.last_buy # <<>>) => ps.executed = "sell"
             /\ ps.executed # "buy")

\* under a denial, the second symbol of the cycle sells its open position
C23_Witness ==
    /\ ~portfolio_safe
    /\ ps.call = "process_symbol" /\ idx = 2
    /\ ps.executed = "sell" /\ ps.logged

\* the order in which process_symbol takes its steps for a product
StepOrder(product_id) ==
    (IF ContainsBTC(product_id) THEN <<"CANARY">> ELSE <<>>)
        \o <<"FETCH", "INDICATORS", "RESOLVE_POSITION", "RISK_CHECK", "SIGNAL", "DECIDE">>

\* the order of the steps as the state diagram draws it
DrawnOrder == <<"FETCH", "INDICATORS", "RISK_CHECK", "SIGNAL", "RESOLVE_POSITION", "DECIDE">>

IsPrefix(s, t) == Len(s) <= Len(t) /\ s = SubSeq(t, 1, Len(s))

StepsWithoutCanary(p) == SelectSeq(p.steps, LAMBDA x : x # "CANARY")

C24_DropToZeroIsNoCrash ==
    (/\ ps.call = "check_market_crash"
     /\ Len(ps.df) >= 2
     /\ ps.df[Len(ps.df) - 1] = 100 /\ ps.df[Len(ps.df)] = 0)
        => ps.crash = "False"

LossMeanZero ==
    LET n == Len(ps.df)  p == ps.strategy_params.rsi_period
    IN /\ n >= p /\ n >= 1
       /\ \A i \in (n - p + 1)..n : i >= 2 => ps.df[i] >= ps.df[i - 1]

\* C27: whenever the rolling mean of the losses over the oscillator period is
\* zero at the last bar, the oscillator computed for that bar is 0.
C27_NoLossGivesZero ==
    (ps.call = "generate_signal" /\ LossMeanZero) => ps.rsi[1].num = 0

\* the call made on the first k closes of the scenario, under its profile
ScenarioAt(k) ==
    /\ ps.call = "generate_signal"
    /\ ps.strategy_params = ScenarioProfile
    /\ ps.df = ScenarioPrefix(k)

C29_RealizedPnl ==
    /\ \A i \in 1..Len(trade_log) : trade_log[i].side = "BUY" => trade_log[i].pnl = 0
    /\ (ps.call = "process_symbol" /\ ps.logged /\ ps.executed = "sell") =>
          /\ Last(trade_log).side = "SELL"
          /\ ps.last_buy # <<>>
          /\ ps.last_buy[1] = Last(BuysOf(LedgerRead, Queried))
          /\ Last(trade_log).cost = ps.details[1].cost
          /\ Last(trade_log).pnl = ps.details[1].cost - ps.last_buy[1].cost

\* a sell has been logged at a loss against the buy the resolver returned
C29_Witness ==
    /\ ps.call = "process_symbol" /\ ps.logged /\ ps.executed = "sell"
    /\ Last(trade_log).pnl < 0
    /\ Len(BuysOf(trade_log, Queried)) >= 1

\* C30: every order the exchange accepts in a process_symbol call, one that
\* reports no immediate fills included, has its ledger record appended by the
\* same call.
C30_AcceptedOrderIsLogged ==
    (ps.call = "process_symbol" /\ ps.accepted) => ps.logged

\* C31: whenever execute_sell is reached for a symbol the resolver reports
\* OPEN, a sell order is submitted to the exchange.
C31_SellReachedSubmits ==
    (ps.call = "process_symbol" /\ ps.executed = "sell" /\ ps.last_buy # <<>>)
        => ps.submitted

\* C32: the timestamp error aborts a cycle only at its top, in the portfolio
\* check made before the first symbol: no process_symbol call ends in an
\* exception of the exchange, and the aborted cycle has placed no order and
\* appended no record, so the step that aborts leaves the ledger, the order
\* counter and the position flags as the cycle found them.
C32_AbortedCycleHasNotTraded ==
    /\ [][ps'.raised = ClockSkew =>
             /\ pc = "loop"
             /\ ps'.call = "run_strategy_cycle"
             /\ ~ps'.submitted /\ ~ps'.logged
             /\ UNCHANGED <<trade_log, log_exists, next_order_id, open_positions>>]_vars
    /\ [](ps.call = "process_symbol" => ps.raised \notin {ClockSkew, ApiFailure})

\* a cycle is aborted by the timestamp error with a trade of an earlier cycle
\* in the ledger
C32_Witness ==
    /\ ps.call = "run_strategy_cycle" /\ ps.raised = ClockSkew
    /\ Len(trade_log) >= 1
    /\ pc = "loop"

\* C33: every execute_sell call is made with the BUY record the resolver
\* returned to the same process_symbol call, a record of the symbol queried
\* and the last BUY of the ledger read; the pnl computation never fails on a
\* missing record.
C33_SellHasItsBuyRecord ==
    /\ (ps.call = "process_symbol" /\ ps.executed = "sell") =>
          /\ ps.last_buy # <<>>
          /\ ps.last_buy[1].side = "BUY"
          /\ ps.last_buy[1].symbol = Queried
          /\ ps.last_buy[1] = Last(BuysOf(LedgerRead, Queried))
    /\ ps.raised # MissingRecord

\* execute_sell has been called and has computed a pnl from the record
C33_Witness ==
    /\ ps.call = "process_symbol" /\ ps.executed = "sell"
    /\ ps.logged
    /\ Last(trade_log).pnl = ps.details[1].cost - ps.last_buy[1].cost
    /\ ps.product_id = "ETHUSDT"

====
